---- MODULE Spec2Model ----
(***************************************************************************)
(* VGA text-mode console driver (src/src/vga_buffer.rs) and its two call   *)
(* sites (src/src/main.rs).                                                *)
(*                                                                         *)
(* Two specifications share the definitions of the Writer:                 *)
(*   SpecW  the Writer's public methods write_byte / write_string called   *)
(*          in sequence on a constructed Writer;                           *)
(*   Spec   callers of _print contending for the WRITER spin lock.         *)
(***************************************************************************)
EXTENDS Integers, Sequences, FiniteSets, TLC

VARIABLES
    writer,      \* the Writer inside WRITER, with the VGA memory it refers to
    once,        \* lazy_static: has WRITER been constructed
    locked,      \* spin::Mutex: the lock flag of WRITER
    pc,          \* per caller of _print: "idle", "spin", "held"
    args,        \* per caller: the fmt::Arguments being printed (its str pieces)
    piece,       \* per caller: index of the next piece write_fmt hands to write_str
    hist,        \* per caller: the Arguments of its completed _print calls
    calls,       \* SpecW: number of method calls made so far
    last,        \* SpecW: the last method call, [op, arg]
    prev,        \* SpecW: the Writer as it was when the last call began
    contended,   \* Spec: some lock() found the lock held and had to retry
    ctx,         \* SpecM: the function of main.rs the execution context is in
    abandoned    \* SpecM: a _print frame that panicked still owns the guard

vars == <<writer, once, locked, pc, args, piece, hist, calls, last, prev,
          contended, ctx, abandoned>>

---------------------------------------------------------------------------
(* Constants of the driver *)

BUFFER_HEIGHT == 25
BUFFER_WIDTH == 80

Black == 0
Yellow == 14

NEWLINE == 10
SPACE == 32
PRINTABLE_LO == 32
PRINTABLE_HI == 126
SUBSTITUTE == 254

Rows == 0..(BUFFER_HEIGHT - 1)
Cols == 0..(BUFFER_WIDTH - 1)

---------------------------------------------------------------------------
(* Bounds of the model *)

\* SpecW: number of write_byte / write_string calls in a run
MaxCalls == 3
\* Spec: number of _print calls each caller makes
MaxPrints == 2
\* SpecT: the texts written have every length from 1 to MaxLen
MaxLen == 170

---------------------------------------------------------------------------
(* Color, ColorCode, ScreenChar *)

\* a | b on u8 values, bit by bit
RECURSIVE BitOr(_, _, _)
BitOr(a, b, bits) ==
    IF bits = 0 THEN 0
    ELSE (IF (a % 2 = 1) \/ (b % 2 = 1) THEN 1 ELSE 0)
         + 2 * BitOr(a \div 2, b \div 2, bits - 1)

\* ColorCode((background as u8) << 4 | (foreground as u8))
\* ColorCode::new shifting the background by 3 bits
ColorCode_new_shift3(foreground, background) ==
    BitOr((background * 8) % 256, foreground, 8)

ColorCode_new(foreground, background) ==
    BitOr((background * 16) % 256, foreground, 8)

ScreenChar(ascii_character, color_code) ==
    [ascii_character |-> ascii_character, color_code |-> color_code]

---------------------------------------------------------------------------
(* Buffer access.  self is a Writer: column_position, color_code and buffer *)
(* are the fields of the struct (buffer is the memory the reference points  *)
(* to).  Four more fields record what the methods did:                      *)
(*   n_scroll  number of new_line calls,                                    *)
(*   n_put     number of character cells write_byte placed,                 *)
(*   fill      columns of the bottom row written since it was last cleared, *)
(*   fault     an index was out of range (the indexing panics; the method   *)
(*             is abandoned there).                                         *)

InRange(row, col) == row \in Rows /\ col \in Cols

\* self.buffer.chars[row][col].write(ch)
WriteCell(self, row, col, ch) ==
    IF InRange(row, col)
    THEN [self EXCEPT !.buffer[row][col] = ch]
    ELSE [self EXCEPT !.fault = TRUE]

\* The inner loop of new_line for one row: for col in 0..BUFFER_WIDTH, read
\* chars[row][col] and write it to chars[row - 1][col].  The cells read (row)
\* and the cells written (row - 1) are disjoint, so the 80 copies are one row
\* assignment.
CopyRowUp(self, row) ==
    IF row \in Rows /\ (row - 1) \in Rows
    THEN [self EXCEPT !.buffer[row - 1] =
                          [col \in Cols |-> self.buffer[row][col]]]
    ELSE [self EXCEPT !.fault = TRUE]

\* CopyRows with the rows taken from the bottom up (24 first, 1 last)
RECURSIVE CopyRowsDown(_, _)
CopyRowsDown(self, row) ==
    IF self.fault \/ row >= BUFFER_HEIGHT THEN self
    ELSE CopyRowUp(CopyRowsDown(self, row + 1), row)

\* The outer loop of new_line: for row in 1..BUFFER_HEIGHT, in increasing order,
\* each row copied in place into the row above it.
RECURSIVE CopyRows(_, _)
CopyRows(self, row) ==
    IF self.fault \/ row >= BUFFER_HEIGHT THEN self
    ELSE CopyRows(CopyRowUp(self, row), row + 1)

\* clear_row clearing only the cells left of the cursor
clear_row_used_part(self, row) ==
    LET blank == ScreenChar(SPACE, self.color_code)
    IN  IF self.fault THEN self
        ELSE IF row \in Rows
        THEN [self EXCEPT !.buffer[row] =
                              [col \in Cols |-> IF col < self.column_position
                                                THEN blank ELSE @[col]],
                          !.fill = IF row = BUFFER_HEIGHT - 1 THEN {} ELSE @]
        ELSE [self EXCEPT !.fault = TRUE]

clear_row(self, row) ==
    LET blank == ScreenChar(SPACE, self.color_code)
    IN  IF self.fault THEN self
        ELSE IF row \in Rows
        THEN [self EXCEPT !.buffer[row] = [col \in Cols |-> blank],
                          !.fill = IF row = BUFFER_HEIGHT - 1 THEN {} ELSE @]
        ELSE [self EXCEPT !.fault = TRUE]

\* new_line without the reset of column_position
new_line_no_reset(self) ==
    LET moved   == CopyRows(self, 1)
        cleared == clear_row(moved, BUFFER_HEIGHT - 1)
    IN  IF cleared.fault THEN cleared
        ELSE [cleared EXCEPT !.n_scroll = @ + 1]

\* new_line that clears the bottom row without moving the rows up
new_line_clear_only(self) ==
    LET cleared == clear_row(self, BUFFER_HEIGHT - 1)
    IN  IF cleared.fault THEN cleared
        ELSE [cleared EXCEPT !.column_position = 0, !.n_scroll = @ + 1]

new_line(self) ==
    LET moved   == CopyRows(self, 1)
        cleared == clear_row(moved, BUFFER_HEIGHT - 1)
    IN  IF cleared.fault THEN cleared
        ELSE [cleared EXCEPT !.column_position = 0, !.n_scroll = @ + 1]

\* The end of write_byte's second arm: the cell write at (BUFFER_HEIGHT - 1,
\* column_position) and the increment of column_position
\* The cell write of write_byte storing the byte with a light gray attribute
PutByte_gray(wrapped, byte) ==
    LET col == wrapped.column_position
        put == WriteCell(wrapped, BUFFER_HEIGHT - 1, col, ScreenChar(byte, 7))
    IN  IF put.fault THEN put
        ELSE [put EXCEPT !.column_position = @ + 1,
                         !.n_put = @ + 1,
                         !.fill = @ \cup {col}]

\* The cell write of write_byte blanking the cell after the one it writes
PutByte_blank_next(wrapped, byte) ==
    LET col == wrapped.column_position
        put == WriteCell(wrapped, BUFFER_HEIGHT - 1, col,
                         ScreenChar(byte, wrapped.color_code))
        nxt == IF col + 1 < BUFFER_WIDTH
               THEN WriteCell(put, BUFFER_HEIGHT - 1, col + 1,
                              ScreenChar(SPACE, wrapped.color_code))
               ELSE put
    IN  IF nxt.fault THEN nxt
        ELSE [nxt EXCEPT !.column_position = @ + 1,
                         !.n_put = @ + 1,
                         !.fill = @ \cup {col}]

PutByte(wrapped, byte) ==
    LET col == wrapped.column_position
        put == WriteCell(wrapped, BUFFER_HEIGHT - 1, col,
                         ScreenChar(byte, wrapped.color_code))
    IN  IF put.fault THEN put
        ELSE [put EXCEPT !.column_position = @ + 1,
                         !.n_put = @ + 1,
                         !.fill = @ \cup {col}]

\* write_byte with > for >= in the test for a full row
write_byte_late_wrap(self, byte) ==
    IF self.fault THEN self
    ELSE IF byte = NEWLINE THEN new_line(self)
    ELSE PutByte(IF self.column_position > BUFFER_WIDTH
                 THEN new_line(self) ELSE self, byte)

\* write_byte that wraps as soon as the byte it placed filled the row
write_byte_eager_wrap(self, byte) ==
    IF self.fault THEN self
    ELSE IF byte = NEWLINE THEN new_line(self)
    ELSE LET put == PutByte(self, byte)
         IN  IF ~put.fault /\ put.column_position >= BUFFER_WIDTH
             THEN new_line(put) ELSE put

\* write_byte with the test for a full row made before the match on the byte
write_byte_newline_checked(self, byte) ==
    IF self.fault THEN self
    ELSE LET wrapped == IF self.column_position >= BUFFER_WIDTH
                        THEN new_line(self) ELSE self
         IN  IF byte = NEWLINE THEN new_line(wrapped)
             ELSE PutByte(wrapped, byte)

\* write_byte without the increment of column_position
write_byte_no_advance(self, byte) ==
    IF self.fault THEN self
    ELSE IF byte = NEWLINE THEN new_line(self)
    ELSE LET wrapped == IF self.column_position >= BUFFER_WIDTH
                        THEN new_line(self) ELSE self
             put == PutByte(wrapped, byte)
         IN  IF put.fault THEN put
             ELSE [put EXCEPT !.column_position = wrapped.column_position]

write_byte(self, byte) ==
    IF self.fault THEN self
    ELSE IF byte = NEWLINE THEN new_line(self)
    ELSE PutByte(IF self.column_position >= BUFFER_WIDTH
                 THEN new_line(self) ELSE self, byte)

\* write_string's match with 0x7f taken into the printable range
write_string_byte_del(self, byte) ==
    IF (byte >= PRINTABLE_LO /\ byte <= PRINTABLE_HI + 1) \/ byte = NEWLINE
    THEN write_byte(self, byte)
    ELSE write_byte(self, SUBSTITUTE)

\* The body of write_string's loop: the match on one byte of s.bytes()
write_string_byte(self, byte) ==
    IF (byte >= PRINTABLE_LO /\ byte <= PRINTABLE_HI) \/ byte = NEWLINE
    THEN write_byte(self, byte)
    ELSE write_byte(self, SUBSTITUTE)

\* for byte in s.bytes(), first to last.  The bytes lo..hi of s are written
\* as the bytes lo..mid and then the bytes mid+1..hi, which is the same
\* left-to-right order with an evaluation depth of log(Len(s)).
RECURSIVE WriteRange(_, _, _, _)
WriteRange(self, s, lo, hi) ==
    IF self.fault \/ lo > hi THEN self
    ELSE IF lo = hi THEN write_string_byte(self, s[lo])
    ELSE LET mid == (lo + hi) \div 2
         IN  WriteRange(WriteRange(self, s, lo, mid), s, mid + 1, hi)

write_string(self, s) == WriteRange(self, s, 1, Len(s))

\* fmt::Write for Writer: write_str always returns Ok(())
write_str(self, s) == write_string(self, s)

\* core::fmt::Write::write_fmt: the pieces of the Arguments go to write_str
\* in order
RECURSIVE write_fmt(_, _)
write_fmt(self, a) ==
    IF a = <<>> THEN self
    ELSE write_fmt(write_str(self, Head(a)), Tail(a))

\* The value WRITER is initialised with; the buffer is the memory at 0xb8000,
\* whatever it holds
Construct(memory) ==
    [column_position |-> 0,
     color_code      |-> ColorCode_new(Yellow, Black),
     buffer          |-> memory,
     n_scroll        |-> 0,
     n_put           |-> 0,
     fill            |-> {},
     fault           |-> FALSE]

\* Before WRITER is constructed there is only the memory
Unbuilt(memory) == [Construct(memory) EXCEPT !.color_code = 0]

---------------------------------------------------------------------------
(* Inputs *)

\* What the video memory may hold when the driver starts: the firmware's text
\* (every row different, light gray on black) or a cleared screen
BootScreen ==
    [row \in Rows |-> [col \in Cols |->
        ScreenChar(33 + ((row * 7 + col) % 90), 7)]]
ClearedScreen ==
    [row \in Rows |-> [col \in Cols |->
        ScreenChar(SPACE, ColorCode_new(Yellow, Black))]]
Memories == {BootScreen, ClearedScreen}

\* n printable bytes, neighbours different: letters from 'A' + k on
Letters(k, n) == [i \in 1..n |-> 65 + ((i - 1 + k) % 26)]

\* "Hello World" and "Hello World!"
Hello == <<72, 101, 108, 108, 111, 32, 87, 111, 114, 108, 100>>
HelloWorld == Hello \o <<33>>

\* Bytes outside the printable range that a str can hold: NUL, 0x1f, DEL and
\* the two bytes of e-acute
Unprintable == <<0, 31, 127, 195, 169>>

\* The UTF-8 bytes of the strings given to write_string
Strings ==
    { HelloWorld,
      Letters(0, BUFFER_WIDTH - 1), Letters(3, BUFFER_WIDTH),
      Letters(5, BUFFER_WIDTH + 1),
      <<32, 126, 66>>,            \* " ~B": the ends of the printable range
      Unprintable,
      <<10>>,                     \* "\n"
      <<67, 10, 68, 69>> }        \* "C\nDE"

\* The bytes given to write_byte (which takes any u8)
Bytes == {NEWLINE, 65, 255}

\* The Arguments given to _print, as the pieces write_fmt passes to write_str
ArgsSet ==
    { <<Hello, <<33>>, <<NEWLINE>>>>,   \* println!("Hello World{}", "!")
      <<<<65, 66>>, <<67>>>> }          \* print!("AB{}", "C")

Callers == {1, 2}

---------------------------------------------------------------------------
(* SpecW: the methods of a constructed Writer, called one after another *)

NoCall == [op |-> "none", arg |-> <<>>]

\* SpecW and Spec follow no function of main.rs
NoContext == [fn |-> "none", entry |-> 0]

InitW ==
    /\ writer \in {Construct(m) : m \in Memories}
    /\ once = TRUE
    /\ locked = FALSE
    /\ pc = [p \in Callers |-> "idle"]
    /\ args = [p \in Callers |-> <<>>]
    /\ piece = [p \in Callers |-> 1]
    /\ hist = [p \in Callers |-> <<>>]
    /\ calls = 0
    /\ last = NoCall
    /\ prev = writer
    /\ contended = FALSE
    /\ ctx = NoContext
    /\ abandoned = FALSE

WriteByte(byte) ==
    /\ calls < MaxCalls
    /\ writer' = write_byte(writer, byte)
    /\ prev' = writer
    /\ last' = [op |-> "write_byte", arg |-> <<byte>>]
    /\ calls' = calls + 1
    /\ UNCHANGED <<once, locked, pc, args, piece, hist, contended, ctx,
                   abandoned>>

WriteString(s) ==
    /\ calls < MaxCalls
    /\ writer' = write_string(writer, s)
    /\ prev' = writer
    /\ last' = [op |-> "write_string", arg |-> s]
    /\ calls' = calls + 1
    /\ UNCHANGED <<once, locked, pc, args, piece, hist, contended, ctx,
                   abandoned>>

NextW ==
    \/ \E byte \in Bytes : WriteByte(byte)
    \/ \E s \in Strings : WriteString(s)

SpecW == InitW /\ [][NextW]_vars

---------------------------------------------------------------------------
(* Vocabulary of the properties *)

Bottom == BUFFER_HEIGHT - 1

\* The blank cell clear_row writes for a Writer
BlankOf(w) == ScreenChar(SPACE, w.color_code)

IsPrintable(byte) == byte \in 32..126
AllPrintable(s) == \A i \in 1..Len(s) : IsPrintable(s[i])
NewlinesIn(s) == Cardinality({i \in 1..Len(s) : s[i] = 10})

\* What a byte of a string is to look like on the screen
Rendered(byte) == IF IsPrintable(byte) THEN byte ELSE 254

\* Index of the first byte after the last newline of s (1 if s has none)
AfterLastNewline(s) ==
    LET nl == {i \in 1..Len(s) : s[i] = 10}
    IN  IF nl = {} THEN 1 ELSE 1 + CHOOSE i \in nl : \A j \in nl : j <= i

\* The last call was write_byte(byte)
LastByte(byte) == last.op = "write_byte" /\ last.arg = <<byte>>
LastWasByte == last.op = "write_byte"
LastWasString == last.op = "write_string"

\* The grid is the grid of prev moved up by one row: rows 1..24 of prev are
\* rows 0..23 now
MovedUpOnce ==
    \A row \in 1..Bottom : \A col \in Cols :
        writer.buffer[row - 1][col] = prev.buffer[row][col]

---------------------------------------------------------------------------
(* C3 *)

\* C3: whatever write_byte and write_string calls are made, on whatever
\* bytes, no cell access is out of range: every row indexed is in 0..24 and
\* every column in 0..79, and the columns write_byte has filled in the bottom
\* row are columns of the grid.
C3_AccessesInRange ==
    /\ writer.fault = FALSE
    /\ writer.fill \subseteq Cols
    /\ writer.column_position \in 0..BUFFER_WIDTH

\* A byte was placed by a call that found the row full (column 80)
C3_Witness ==
    /\ LastWasByte /\ last.arg # <<NEWLINE>>
    /\ prev.column_position = BUFFER_WIDTH
    /\ writer.n_put = prev.n_put + 1
    /\ writer.fill = {0}

---------------------------------------------------------------------------
(* C4 *)

\* C4: write_string puts one cell per input byte other than newline, in
\* order: a printable byte as itself, any other byte as 0xFE, so the cursor
\* moves on by one per such byte; a newline is passed on as a newline (one
\* scroll, cursor to column 0).  The cells are compared where the string fits
\* in what is left of the row.
C4_WriteStringRenders ==
    LastWasString =>
        LET s == last.arg
            from == AfterLastNewline(s)
            start == IF from = 1 THEN prev.column_position ELSE 0
        IN  /\ writer.n_put = prev.n_put + (Len(s) - NewlinesIn(s))
            /\ prev.column_position + Len(s) <= BUFFER_WIDTH =>
                  /\ writer.n_scroll = prev.n_scroll + NewlinesIn(s)
                  /\ writer.column_position = start + (Len(s) - from + 1)
                  /\ \A i \in from..Len(s) :
                        writer.buffer[Bottom][start + i - from] =
                            ScreenChar(Rendered(s[i]), writer.color_code)

\* A string of five unprintable bytes became five 0xFE cells
C4_Witness ==
    /\ LastWasString /\ last.arg = Unprintable
    /\ prev.column_position = 12
    /\ writer.column_position = 17
    /\ \A col \in 12..16 : writer.buffer[Bottom][col].ascii_character = 254

---------------------------------------------------------------------------
(* C5 *)

\* C5 as stated: after write_string of N <= 80 printable bytes, the first N
\* cells of row 24 are the input bytes with the current color and the cursor
\* column is N.
C5_FirstCellsAreInput ==
    (LastWasString /\ AllPrintable(last.arg) /\ Len(last.arg) <= BUFFER_WIDTH) =>
        /\ writer.column_position = Len(last.arg)
        /\ \A i \in 1..Len(last.arg) :
              writer.buffer[Bottom][i - 1] =
                  ScreenChar(last.arg[i], writer.color_code)

\* C5 amended: the same, for a call that begins with the cursor at column 0,
\* or at column 80 (row full, N >= 1: the first byte scrolls).
C5_FirstCellsAreInputFromLineStart ==
    (/\ LastWasString /\ AllPrintable(last.arg)
     /\ Len(last.arg) <= BUFFER_WIDTH
     /\ \/ prev.column_position = 0
        \/ prev.column_position = BUFFER_WIDTH /\ Len(last.arg) >= 1) =>
        /\ writer.column_position = Len(last.arg)
        /\ \A i \in 1..Len(last.arg) :
              writer.buffer[Bottom][i - 1] =
                  ScreenChar(last.arg[i], writer.color_code)

\* 80 printable bytes written from column 0 fill the row
C5_Witness ==
    /\ LastWasString /\ last.arg = Letters(3, BUFFER_WIDTH)
    /\ prev.column_position = 0
    /\ writer.column_position = BUFFER_WIDTH
    /\ writer.buffer[Bottom][BUFFER_WIDTH - 1].ascii_character = last.arg[BUFFER_WIDTH]

---------------------------------------------------------------------------
(* C6 *)

\* What C6 says the grid is after the 81 bytes
C6_After(s) ==
    /\ writer.n_scroll = prev.n_scroll + 1
    /\ \A i \in 1..BUFFER_WIDTH :
          writer.buffer[Bottom - 1][i - 1] = ScreenChar(s[i], writer.color_code)
    /\ writer.buffer[Bottom][0] =
          ScreenChar(s[BUFFER_WIDTH + 1], writer.color_code)
    /\ \A col \in 1..(BUFFER_WIDTH - 1) :
          writer.buffer[Bottom][col] = BlankOf(writer)
    /\ \A row \in 1..(Bottom - 1) : writer.buffer[row - 1] = prev.buffer[row]
    /\ writer.column_position = 1

\* C6 as stated: one write_string of 81 printable bytes scrolls exactly once,
\* before the 81st byte: the first 80 bytes are row 23, the 81st is at column
\* 0 of row 24, the cursor column is 1.
C6_EightyOneBytes ==
    (/\ LastWasString /\ AllPrintable(last.arg)
     /\ Len(last.arg) = BUFFER_WIDTH + 1) => C6_After(last.arg)

\* C6 amended: the same, for a call that begins with the cursor at column 0.
C6_EightyOneBytesFromLineStart ==
    (/\ LastWasString /\ AllPrintable(last.arg)
     /\ Len(last.arg) = BUFFER_WIDTH + 1
     /\ prev.column_position = 0) => C6_After(last.arg)

\* 81 bytes were written from column 0 onto a row 24 that held something
C6_Witness ==
    /\ LastWasString /\ Len(last.arg) = BUFFER_WIDTH + 1
    /\ prev.column_position = 0
    /\ prev.n_scroll > 0
    /\ writer.n_scroll = prev.n_scroll + 1
    /\ writer.column_position = 1

---------------------------------------------------------------------------
(* C7 *)

\* C7: write_byte(newline), whatever the cursor column (0..80), scrolls
\* exactly once (the grid has moved up by one row, not two), leaves the
\* cursor at column 0 and places no character cell.
C7_NewlineScrollsOnce ==
    LastByte(NEWLINE) =>
        /\ prev.column_position \in 0..BUFFER_WIDTH
        /\ writer.n_scroll = prev.n_scroll + 1
        /\ MovedUpOnce
        /\ writer.column_position = 0
        /\ writer.n_put = prev.n_put
        /\ writer.fill = {}

\* A newline was written to a full row
C7_Witness ==
    /\ LastByte(NEWLINE)
    /\ prev.column_position = BUFFER_WIDTH
    /\ writer.n_scroll = prev.n_scroll + 1
    /\ writer.column_position = 0

---------------------------------------------------------------------------
(* C8 *)

\* The last call was a write_byte that scrolled: prev is the grid just before
\* the scroll, which is the first thing such a call does
ByteCallScrolled == LastWasByte /\ writer.n_scroll = prev.n_scroll + 1

---------------------------------------------------------------------------
(* C9 *)

\* The last call ended with a scroll: write_byte(newline), or a write_string
\* whose last byte is the newline
EndedWithScroll ==
    \/ LastByte(NEWLINE)
    \/ LastWasString /\ Len(last.arg) > 0 /\ last.arg[Len(last.arg)] = NEWLINE

\* C9: right after a scroll all 80 cells of row 24 are spaces in the writer's
\* current color and the cursor column is 0; when the scroll was the wrap of
\* a write_byte, that holds of the cells the byte did not take.
C9_BottomRowBlankAfterScroll ==
    /\ EndedWithScroll =>
          /\ \A col \in Cols : writer.buffer[Bottom][col] = BlankOf(writer)
          /\ writer.column_position = 0
    /\ (ByteCallScrolled /\ ~LastByte(NEWLINE)) =>
          \A col \in 1..(BUFFER_WIDTH - 1) :
              writer.buffer[Bottom][col] = BlankOf(writer)

\* A scroll cleared a row 24 that was full of text
C9_Witness ==
    /\ LastByte(NEWLINE)
    /\ prev.fill = Cols
    /\ \A col \in Cols : prev.buffer[Bottom][col] # BlankOf(prev)
    /\ \A col \in Cols : writer.buffer[Bottom][col] = BlankOf(writer)

---------------------------------------------------------------------------
(* C10 *)

\* The cursor is at the next free cell of the bottom row: the cells left of
\* it are the ones written since the row was last cleared, and once the row
\* has been cleared by a scroll the cells from it rightwards are blank
AtNextFreeCell ==
    /\ writer.fill = 0..(writer.column_position - 1)
    /\ writer.n_scroll > 0 =>
          \A col \in Cols : col >= writer.column_position =>
              writer.buffer[Bottom][col] = BlankOf(writer)

\* C10 as stated: between calls the cursor column is in 0..79 and is the
\* next free cell of the bottom row.
C10_ColumnBelowWidth ==
    /\ writer.column_position \in 0..(BUFFER_WIDTH - 1)
    /\ AtNextFreeCell

\* C10 amended: between calls the cursor column is in 0..80; below 80 it is
\* the next free cell of the bottom row, and 80 says the row is full.
C10_ColumnAtMostWidth ==
    /\ writer.column_position \in 0..BUFFER_WIDTH
    /\ AtNextFreeCell
    /\ writer.column_position = BUFFER_WIDTH => writer.fill = Cols

\* The row is full and the cursor is at column 80
C10_Witness ==
    /\ writer.column_position = BUFFER_WIDTH
    /\ writer.fill = Cols
    /\ writer.n_scroll > 0

---------------------------------------------------------------------------
(* Spec: callers of _print.  WRITER.lock().write_fmt(args).unwrap(), step   *)
(* by step: the deref of the lazy static, the spin lock's acquisition, one  *)
(* write_str per piece, the drop of the guard.                              *)

\* The memory at 0xb8000 when the program starts
StartMemory == BootScreen

Init ==
    /\ writer = Unbuilt(StartMemory)
    /\ once = FALSE
    /\ locked = FALSE
    /\ pc = [p \in Callers |-> "idle"]
    /\ args = [p \in Callers |-> <<>>]
    /\ piece = [p \in Callers |-> 1]
    /\ hist = [p \in Callers |-> <<>>]
    /\ calls = 0
    /\ last = NoCall
    /\ prev = Unbuilt(<<>>)
    /\ contended = FALSE
    /\ ctx = NoContext
    /\ abandoned = FALSE

\* _print whose deref of WRITER runs the initialiser every time
Call_reconstruct(p, a) ==
    /\ pc[p] = "idle"
    /\ Len(hist[p]) < MaxPrints
    /\ writer' = Construct(writer.buffer)
    /\ once' = TRUE
    /\ pc' = [pc EXCEPT ![p] = "spin"]
    /\ args' = [args EXCEPT ![p] = a]
    /\ piece' = [piece EXCEPT ![p] = 1]
    /\ UNCHANGED <<locked, hist, calls, last, prev, contended, ctx,
                   abandoned>>

\* _print(a) is entered and WRITER is dereferenced: the first deref runs the
\* initialiser (once, atomically), the later ones find the value
Call(p, a) ==
    /\ pc[p] = "idle"
    /\ Len(hist[p]) < MaxPrints
    /\ writer' = IF once THEN writer ELSE Construct(writer.buffer)
    /\ once' = TRUE
    /\ pc' = [pc EXCEPT ![p] = "spin"]
    /\ args' = [args EXCEPT ![p] = a]
    /\ piece' = [piece EXCEPT ![p] = 1]
    /\ UNCHANGED <<locked, hist, calls, last, prev, contended, ctx,
                   abandoned>>

\* lock() with the flag taken without the test that it is free
LockUntested(p) ==
    /\ pc[p] = "spin"
    /\ locked' = TRUE
    /\ pc' = [pc EXCEPT ![p] = "held"]
    /\ UNCHANGED <<writer, once, args, piece, hist, calls, last, prev,
                   contended, ctx, abandoned>>

\* .lock(): the flag goes from free to held in one atomic step
Lock(p) ==
    /\ pc[p] = "spin"
    /\ locked = FALSE
    /\ locked' = TRUE
    /\ pc' = [pc EXCEPT ![p] = "held"]
    /\ UNCHANGED <<writer, once, args, piece, hist, calls, last, prev,
                   contended, ctx, abandoned>>

\* A failed attempt of lock(): the flag is held, the caller goes round again
Spin(p) ==
    /\ pc[p] = "spin"
    /\ locked = TRUE
    /\ contended = FALSE
    /\ contended' = TRUE
    /\ UNCHANGED <<writer, once, locked, pc, args, piece, hist, calls, last,
                   prev, ctx, abandoned>>

\* write_fmt passes the next piece to write_str
WriteStr(p) ==
    /\ pc[p] = "held"
    /\ piece[p] <= Len(args[p])
    /\ writer' = write_str(writer, args[p][piece[p]])
    /\ piece' = [piece EXCEPT ![p] = @ + 1]
    /\ UNCHANGED <<once, locked, pc, args, hist, calls, last, prev,
                   contended, ctx, abandoned>>

\* The end of _print with the guard leaked instead of dropped
Unlock_leak(p) ==
    /\ pc[p] = "held"
    /\ piece[p] > Len(args[p])
    /\ pc' = [pc EXCEPT ![p] = "idle"]
    /\ hist' = [hist EXCEPT ![p] = Append(@, args[p])]
    /\ UNCHANGED <<writer, once, locked, args, piece, calls, last, prev,
                   contended, ctx, abandoned>>

\* write_fmt returned Ok(()), unwrap passes, the guard is dropped
Unlock(p) ==
    /\ pc[p] = "held"
    /\ piece[p] > Len(args[p])
    /\ locked' = FALSE
    /\ pc' = [pc EXCEPT ![p] = "idle"]
    /\ hist' = [hist EXCEPT ![p] = Append(@, args[p])]
    /\ UNCHANGED <<writer, once, args, piece, calls, last, prev, contended,
                   ctx, abandoned>>

Next ==
    \E p \in Callers :
        \/ \E a \in ArgsSet : Call(p, a)
        \/ Lock(p)
        \/ Spin(p)
        \/ WriteStr(p)
        \/ Unlock(p)

Spec == Init /\ [][Next]_vars

\* Every context keeps running: a caller that can take the lock, write its
\* next piece or drop the guard does so in the end.  (A caller spinning on a
\* held lock is not promised anything by this.)
\* The weak fairness of WriteStr(p) is written with its enabling condition
\* spelt out: WriteStr(p) is enabled exactly when Writing(p), and each of its
\* steps changes piece.
Writing(p) == pc[p] = "held" /\ piece[p] <= Len(args[p])

SpecFair ==
    /\ Spec
    /\ \A p \in Callers :
          /\ WF_vars(Lock(p))
          /\ WF_vars(Unlock(p))
          /\ ([]<>(~Writing(p)) \/ []<><<WriteStr(p)>>_vars)

---------------------------------------------------------------------------
(* C1 *)

\* What the display and the next write depend on: the grid and the cursor
Observable(w) == <<w.buffer, w.column_position>>

\* The outcomes of running the calls of h one whole call after another, from
\* w, in every order that keeps each caller's own calls in their order
RECURSIVE Serials(_, _)
Serials(w, h) ==
    LET live == {p \in Callers : h[p] # <<>>}
    IN  IF live = {} THEN {Observable(w)}
        ELSE UNION { Serials(write_fmt(w, Head(h[p])),
                             [h EXCEPT ![p] = Tail(@)]) : p \in live }

NoneHeld == \A p \in Callers : pc[p] # "held"

\* C1: whenever no _print call is in the middle of its write, the grid and
\* the cursor are what the completed calls give when run one whole call after
\* another in some order: with one call by each of two callers, in one of the
\* two orders.
C1_PrintsSerialise ==
    (once /\ NoneHeld) =>
        Observable(writer) \in Serials(Construct(StartMemory), hist)

\* Two callers have each completed one call, of different texts (the two
\* orders give different screens), and one of them had to wait for the lock
C1_Witness ==
    /\ \A p \in Callers : pc[p] = "idle" /\ Len(hist[p]) = 1
    /\ hist[1] # hist[2]
    /\ contended

---------------------------------------------------------------------------
(* C2 *)

Holders == {p \in Callers : pc[p] = "held"}

\* C2: at most one caller holds the WRITER lock, the flag is set exactly
\* while one does, and every step that changes the grid or the cursor column
\* is a write_str of the one caller holding the lock.
C2_LockExcludes ==
    /\ [](Cardinality(Holders) <= 1 /\ (locked <=> Holders # {}))
    /\ [][Observable(writer') # Observable(writer) =>
             \E p \in Callers :
                 /\ Holders = {p}
                 /\ locked
                 /\ piece'[p] = piece[p] + 1]_vars

\* One caller is in the middle of its write while the other retries lock()
C2_Witness ==
    /\ pc[1] = "held" /\ piece[1] = 2
    /\ pc[2] = "spin"
    /\ locked /\ contended

---------------------------------------------------------------------------
(* SpecT: one write_string of a printable text to a newly constructed Writer *)

\* The number of cells of the grid
GridCells == BUFFER_WIDTH * BUFFER_HEIGHT

Repeat(byte, n) == [i \in 1..n |-> byte]

\* 80 times 'A', then 'B'
AsThenB == Repeat(65, BUFFER_WIDTH) \o <<66>>

\* Printable texts without newline: every length up to MaxLen, a text one
\* cell short of the grid, a text of exactly the grid's 2000 cells
Texts ==
    {Letters(3, n) : n \in 1..MaxLen}
        \cup {Letters(3, GridCells - 1), Letters(3, GridCells), AsThenB}

InitT == InitW

WriteText(s) ==
    /\ calls = 0
    /\ writer' = write_string(writer, s)
    /\ prev' = writer
    /\ last' = [op |-> "write_string", arg |-> s]
    /\ calls' = 1
    /\ UNCHANGED <<once, locked, pc, args, piece, hist, contended, ctx,
                   abandoned>>

NextT == \E s \in Texts : WriteText(s)

SpecT == InitT /\ [][NextT]_vars

---------------------------------------------------------------------------
(* C11 *)

\* 80 'A' and one 'B' have been written to a new writer on a blank grid
C11_Scenario ==
    /\ calls = 1 /\ LastWasString /\ last.arg = AsThenB
    /\ prev = Construct(ClearedScreen)

\* What C11 says of row 24 and of the cursor
C11_BottomRow ==
    /\ writer.buffer[Bottom][0] = ScreenChar(66, writer.color_code)
    /\ \A col \in 1..(BUFFER_WIDTH - 1) :
          writer.buffer[Bottom][col] = BlankOf(writer)
    /\ writer.column_position = 1

\* C11 as stated: after 80 'A' and one 'B' on a blank grid, row 23 is
\* entirely blank, row 24 is 'B' and 79 blanks, the cursor column is 1.
C11_Row23Blank ==
    C11_Scenario =>
        /\ \A col \in Cols : writer.buffer[Bottom - 1][col] = BlankOf(writer)
        /\ C11_BottomRow

\* C11 amended: row 23 holds the 80 'A' (the scroll moved them up from row
\* 24), rows 0..22 are blank, row 24 is 'B' and 79 blanks, the cursor column
\* is 1.
C11_Row23HoldsAs ==
    C11_Scenario =>
        /\ \A col \in Cols :
              writer.buffer[Bottom - 1][col] = ScreenChar(65, writer.color_code)
        /\ \A row \in 0..(Bottom - 2) : \A col \in Cols :
              writer.buffer[row][col] = BlankOf(writer)
        /\ C11_BottomRow

\* The scenario has run: one scroll, the 'B' placed
C11_Witness ==
    /\ C11_Scenario
    /\ writer.n_scroll = 1
    /\ writer.n_put = BUFFER_WIDTH + 1

---------------------------------------------------------------------------
(* C16 *)

\* A printable text of 1..2000 bytes was written from cursor column 0
C16_Case ==
    /\ calls = 1 /\ LastWasString /\ AllPrintable(last.arg)
    /\ Len(last.arg) \in 1..GridCells
    /\ prev.column_position = 0

\* Number of rows a text of n bytes takes: ceil(n / 80)
RowsOf(n) == (n + BUFFER_WIDTH - 1) \div BUFFER_WIDTH

\* Byte i (from 0) of the text is read back at its row and column, and k - 1
\* scrolls were made
C16_ReadsBack ==
    LET s == last.arg
        k == RowsOf(Len(s))
    IN  /\ writer.n_scroll = prev.n_scroll + (k - 1)
        /\ \A i \in 0..(Len(s) - 1) :
              writer.buffer[Bottom - (k - 1 - (i \div BUFFER_WIDTH))]
                           [i % BUFFER_WIDTH]
                  = ScreenChar(s[i + 1], writer.color_code)

\* The cells of row 24 after the last byte of the text
C16_Trailing ==
    {col \in Cols : col > (Len(last.arg) - 1) % BUFFER_WIDTH}

\* C16 as stated: the text is read back cell by cell, k - 1 scrolls were
\* made, and the cells of row 24 after its last byte are blank.
C16_RoundTrip ==
    C16_Case =>
        /\ C16_ReadsBack
        /\ \A col \in C16_Trailing :
              writer.buffer[Bottom][col] = BlankOf(writer)

\* C16 amended: the same, the cells after the last byte being blank when a
\* scroll was made (k >= 2) or when they were blank before the call.
C16_RoundTripBlankIfCleared ==
    C16_Case =>
        /\ C16_ReadsBack
        /\ (\/ RowsOf(Len(last.arg)) >= 2
            \/ \A col \in C16_Trailing :
                  prev.buffer[Bottom][col] = BlankOf(prev)) =>
              \A col \in C16_Trailing :
                  writer.buffer[Bottom][col] = BlankOf(writer)

\* A text of 2000 bytes fills the grid from its first cell to its last
C16_Witness ==
    /\ C16_Case
    /\ Len(last.arg) = GridCells
    /\ writer.n_scroll = BUFFER_HEIGHT - 1
    /\ writer.buffer[0][0].ascii_character = last.arg[1]
    /\ writer.buffer[Bottom][BUFFER_WIDTH - 1].ascii_character
          = last.arg[GridCells]

---------------------------------------------------------------------------
(* SpecC: ColorCode::new applied to a pair of colors *)

\* The values of the enum Color
Colors == 0..15

InitC ==
    /\ writer = Unbuilt(ClearedScreen)
    /\ once = FALSE
    /\ locked = FALSE
    /\ pc = [p \in Callers |-> "idle"]
    /\ args = [p \in Callers |-> <<>>]
    /\ piece = [p \in Callers |-> 0]
    /\ hist = [p \in Callers |-> <<>>]
    /\ calls = 0
    /\ \E foreground \in Colors, background \in Colors :
          last = [op |-> "ColorCode::new", arg |-> <<foreground, background>>]
    /\ prev = Unbuilt(<<>>)
    /\ contended = FALSE
    /\ ctx = NoContext
    /\ abandoned = FALSE

\* color_code: ColorCode::new(foreground, background)
NewColorCode ==
    /\ calls = 0
    /\ writer' = [writer EXCEPT
                     !.color_code = ColorCode_new(last.arg[1], last.arg[2])]
    /\ calls' = 1
    /\ UNCHANGED <<once, locked, pc, args, piece, hist, last, prev, contended,
                   ctx, abandoned>>

NextC == NewColorCode

SpecC == InitC /\ [][NextC]_vars

---------------------------------------------------------------------------
(* C15 *)

\* C15: ColorCode::new(fg, bg) is bg * 16 + fg for each of the 16 x 16 pairs
\* of colors, a value of 0..255 from which bg and fg are read back, so that
\* distinct pairs have distinct codes; the default yellow on black is 0x0E.
C15_ColorCodePacks ==
    /\ calls = 1 =>
          LET foreground == last.arg[1]
              background == last.arg[2]
          IN  /\ writer.color_code = background * 16 + foreground
              /\ writer.color_code \in 0..255
              /\ writer.color_code \div 16 = background
              /\ writer.color_code % 16 = foreground
    /\ calls = 1 =>
          \A foreground \in Colors, background \in Colors :
              ColorCode_new(foreground, background) = writer.color_code
                  => <<foreground, background>> = last.arg
    /\ ColorCode_new(Yellow, Black) = 14

\* White on white has been packed: the largest code
C15_Witness ==
    /\ calls = 1
    /\ last.arg = <<15, 15>>
    /\ writer.color_code = 255

---------------------------------------------------------------------------
(* C17 *)

\* The last call was write_byte of a byte that is no newline, made with the
\* cursor column below 80
C17_NonWrapping ==
    /\ LastWasByte
    /\ last.arg[1] # NEWLINE
    /\ prev.column_position < BUFFER_WIDTH

\* "Hello World!" was the first string written, to a new writer on a cleared
\* grid
C17_HelloOnCleared ==
    /\ calls = 1 /\ LastWasString /\ last.arg = HelloWorld
    /\ prev = Construct(ClearedScreen)

\* C17: a write_byte that does not wrap makes no scroll and changes only the
\* cell (24, c), which becomes (b, color), and the column, which becomes
\* c + 1; "Hello World!" on a new writer over a cleared grid leaves rows
\* 0..23 and row 24 from column 12 on as they were, with the column at 12.
C17_NonWrappingFrame ==
    /\ C17_NonWrapping =>
          LET c == prev.column_position
          IN  /\ writer.buffer =
                    [prev.buffer EXCEPT
                        ![Bottom][c] = ScreenChar(last.arg[1], prev.color_code)]
              /\ writer.column_position = c + 1
              /\ writer.color_code = prev.color_code
              /\ writer.n_scroll = prev.n_scroll
              /\ ~writer.fault
    /\ C17_HelloOnCleared =>
          /\ \A row \in 0..(Bottom - 1) :
                writer.buffer[row] = prev.buffer[row]
          /\ \A col \in Len(HelloWorld)..(BUFFER_WIDTH - 1) :
                writer.buffer[Bottom][col] = prev.buffer[Bottom][col]
          /\ \A col \in 0..(Len(HelloWorld) - 1) :
                writer.buffer[Bottom][col]
                    = ScreenChar(HelloWorld[col + 1], writer.color_code)
          /\ writer.column_position = Len(HelloWorld)
          /\ writer.n_scroll = 0

\* A byte was written into the last column of a row that was not empty
C17_Witness ==
    /\ C17_NonWrapping
    /\ prev.column_position = BUFFER_WIDTH - 1
    /\ writer.column_position = BUFFER_WIDTH
    /\ writer.buffer[Bottom][BUFFER_WIDTH - 1].ascii_character = last.arg[1]

---------------------------------------------------------------------------
(* C19 *)

\* The color code of the writer is the one it was constructed with
C19_ColorFixed == writer.color_code = ColorCode_new(Yellow, Black)

\* The rows, and the cells of a row, that the last call left different from
\* what they were
C19_ChangedRows == {row \in Rows : writer.buffer[row] # prev.buffer[row]}
C19_Changed(row) ==
    {col \in Cols : writer.buffer[row][col] # prev.buffer[row][col]}

\* The cells of the bottom row written since the last scroll, and the whole
\* bottom row when the last call ended with a scroll, carry the color code
C19_WrittenCellsColored ==
    /\ \A col \in writer.fill :
          writer.buffer[Bottom][col].color_code = writer.color_code
    /\ EndedWithScroll =>
          \A col \in Cols : writer.buffer[Bottom][col] = BlankOf(writer)

\* C19 as stated: the color code is always 0x0E, and every cell the driver
\* writes carries the attribute 0x0E.
C19_EveryWriteYellow ==
    /\ C19_ColorFixed
    /\ C19_WrittenCellsColored
    /\ calls > 0 =>
          \A row \in C19_ChangedRows : \A col \in C19_Changed(row) :
              writer.buffer[row][col].color_code = writer.color_code

\* C19 amended: the color code is always 0x0E; a cell written from a byte and
\* a cell blanked by clear_row carry 0x0E, while a cell written by the copy
\* of a scroll is the cell of a row below, with the attribute that cell had.
C19_WritesYellowOrCopies ==
    /\ C19_ColorFixed
    /\ C19_WrittenCellsColored
    /\ calls > 0 =>
          \A row \in C19_ChangedRows : \A col \in C19_Changed(row) :
              \/ writer.buffer[row][col].color_code = writer.color_code
              \/ \E below \in (row + 1)..Bottom :
                    writer.buffer[row][col] = prev.buffer[below][col]

\* A call has scrolled and then written bytes into the cleared row
C19_Witness ==
    /\ calls > 0
    /\ writer.n_scroll > prev.n_scroll
    /\ writer.fill # {}
    /\ writer.fill \cap C19_Changed(Bottom) # {}

---------------------------------------------------------------------------
(* C18 *)

\* Caller p has completed two calls and nobody else has written
C18_TwoPrints(p) ==
    /\ NoneHeld
    /\ Len(hist[p]) = 2
    /\ \A q \in Callers \ {p} : hist[q] = <<>>

\* A step of write_fmt by the holder of the lock
C18_IsWrite ==
    \E p \in Callers : pc[p] = "held" /\ piece'[p] = piece[p] + 1

\* C18: WRITER is constructed once, by the first deref, with column 0 and
\* yellow on black over the memory as it is; after that only writes change
\* it and no step changes its color, so print(s1) then print(s2) leave the
\* grid and the cursor as the one call print(s1 followed by s2) does.
C18_ConstructedOncePersists ==
    /\ [](\A p \in Callers :
            C18_TwoPrints(p) =>
                /\ Observable(writer)
                      = Observable(write_fmt(Construct(StartMemory),
                                             hist[p][1] \o hist[p][2]))
                /\ writer.color_code = ColorCode_new(Yellow, Black))
    /\ [][/\ (~once /\ once') =>
                writer' = Construct(writer.buffer)
          /\ once => once'
          /\ (once /\ ~C18_IsWrite) => writer' = writer
          /\ once => writer'.color_code = writer.color_code]_vars

\* Caller 1 printed "ABC" twice: the second call went on from column 3
C18_Witness ==
    /\ C18_TwoPrints(1)
    /\ hist[1] = << <<<<65, 66>>, <<67>>>>, <<<<65, 66>>, <<67>>>> >>
    /\ writer.column_position = 6

---------------------------------------------------------------------------
(* C13 *)

\* C13: a call that has taken the lock completes its write and gives the
\* lock back; the lock is free in the state right after a call returns, and
\* whenever no call is in its write, so that the next lock() of a context
\* running alone succeeds; no write faults, write_str returns Ok and the call
\* is recorded as completed.
C13_PrintCompletesAndReleases ==
    /\ \A p \in Callers : (pc[p] = "held") ~> (pc[p] = "idle" /\ ~locked)
    /\ [](NoneHeld => ~locked)
    /\ [](~writer.fault)
    /\ [][\A p \in Callers :
            (pc[p] = "held" /\ pc'[p] # "held") =>
                /\ ~locked'
                /\ pc'[p] = "idle"
                /\ piece[p] > Len(args[p])
                /\ hist'[p] = Append(hist[p], args[p])]_vars
    /\ [][\A p \in Callers :
            (pc[p] = "spin" /\ \A q \in Callers \ {p} : pc[q] = "idle") =>
                ENABLED Lock(p)]_vars

\* A caller has completed two calls, the lock is free again
C13_Witness ==
    /\ \E p \in Callers : Len(hist[p]) = 2 /\ pc[p] = "idle"
    /\ NoneHeld
    /\ ~locked

---------------------------------------------------------------------------
(* SpecM: the program of main.rs, one execution context (caller 1).
   _start prints its greeting and loops.  The panic handler is entered when
   a step of the driver faults (an index out of the grid) and, the rest of a
   kernel being absent from main.rs, at any point where _start is outside
   _print; it prints the panic message and loops.  The build does not unwind:
   a frame interrupted by a panic is never resumed and drops nothing. *)

\* println!(..) with no newline appended
println_bare(a) == a

\* println!(..): the pieces of the arguments, then "\n"
println(a) == Append(a, <<NEWLINE>>)

\* println!("Hello World{}", "!")
StartArgs == println(<<Hello, <<33>>>>)

\* What "{}" of a PanicInfo may format to: short and long texts, in one or
\* several pieces, with and without a line break inside
PanicMessages ==
    { <<Letters(7, 20)>>,
      <<Letters(0, BUFFER_WIDTH + 5)>>,
      <<Letters(1, BUFFER_WIDTH)>>,
      <<Letters(2, 30), <<58>>, Letters(4, 5)>>,
      <<Letters(9, 12), <<58, NEWLINE>>, Letters(11, 7)>>,
      << <<112, 97, 110, 105, 99>> >> }

InStart == [fn |-> "_start", entry |-> 0]

InitM ==
    /\ writer \in {Unbuilt(memory) : memory \in Memories}
    /\ once = FALSE
    /\ locked = FALSE
    /\ pc = [p \in Callers |-> "idle"]
    /\ args = [p \in Callers |-> <<>>]
    /\ piece = [p \in Callers |-> 1]
    /\ hist = [p \in Callers |-> <<>>]
    /\ calls = 0
    /\ last = NoCall
    /\ prev = Unbuilt(<<>>)
    /\ contended = FALSE
    /\ ctx = InStart
    /\ abandoned = FALSE

\* The println of the function the context is in has returned
PrintlnDone == pc[1] = "idle" /\ Len(hist[1]) > ctx.entry

\* _start: println!("Hello World{}", "!") enters _print
StartPrintln ==
    /\ ctx.fn = "_start"
    /\ ~PrintlnDone
    /\ Call(1, StartArgs)

\* The panic handler is entered and its println!("{}", _info) enters _print.
\* A frame of _print that held the guard is left behind with it.
PanicEntry(msg) ==
    /\ ctx' = [fn |-> "panic", entry |-> Len(hist[1])]
    /\ abandoned' = (abandoned \/ pc[1] = "held")
    /\ writer' = IF once THEN writer ELSE Construct(writer.buffer)
    /\ once' = TRUE
    /\ pc' = [pc EXCEPT ![1] = "spin"]
    /\ args' = [args EXCEPT ![1] = println(msg)]
    /\ piece' = [piece EXCEPT ![1] = 1]
    /\ UNCHANGED <<locked, hist, calls, last, prev, contended>>

Panic(msg) ==
    /\ \/ ctx.fn = "_start" /\ pc[1] = "idle"
       \/ pc[1] = "held" /\ writer.fault
    /\ PanicEntry(msg)

\* WRITER.lock(): one attempt
Acquire ==
    /\ pc[1] = "spin"
    /\ (Lock(1) \/ Spin(1))

\* write_fmt goes on unless the last write panicked
WriteFmtStep ==
    /\ ~writer.fault
    /\ WriteStr(1)

WriteFmtDone ==
    /\ ~writer.fault
    /\ Unlock(1)

NextM ==
    \/ StartPrintln
    \/ \E msg \in PanicMessages : Panic(msg)
    \/ Acquire
    \/ WriteFmtStep
    \/ WriteFmtDone

SpecM == InitM /\ [][NextM]_vars

---------------------------------------------------------------------------
(* C14 *)

\* _start's println has returned and _start is in its loop
C14_StartIdles == ctx.fn = "_start" /\ PrintlnDone

\* A step of the context: all of NextM but the entry of the panic handler
C14_ProgramStep == StartPrintln \/ Acquire \/ WriteFmtStep \/ WriteFmtDone

\* C14: println writes its text and then one newline, so when a println has
\* returned the cursor column is 0 and row 24 is blank; after _start's
\* println row 23 holds "Hello World!" in yellow on black from column 0, row
\* 24 is blank, and _start has no further step: it writes nothing more.
C14_PrintlnEndsLine ==
    /\ PrintlnDone =>
          /\ writer.column_position = 0
          /\ \A col \in Cols : writer.buffer[Bottom][col] = BlankOf(writer)
          /\ hist[1][Len(hist[1])][Len(hist[1][Len(hist[1])])] = <<NEWLINE>>
    /\ C14_StartIdles =>
          /\ hist[1] = <<StartArgs>>
          /\ \A col \in 0..(Len(HelloWorld) - 1) :
                writer.buffer[Bottom - 1][col]
                    = ScreenChar(HelloWorld[col + 1],
                                 ColorCode_new(Yellow, Black))
          /\ \A col \in Cols :
                writer.buffer[Bottom][col]
                    = ScreenChar(SPACE, ColorCode_new(Yellow, Black))
          /\ ~ENABLED C14_ProgramStep

\* _start has printed its greeting and is in its loop
C14_Witness ==
    /\ C14_StartIdles
    /\ hist[1] = <<StartArgs>>
    /\ writer.n_scroll = 1
    /\ writer.buffer[Bottom - 1][0].ascii_character = 72

---------------------------------------------------------------------------
(* C20 *)

\* The panic handler waits for a lock that a frame below it holds
ReentrantWait == abandoned /\ locked /\ pc[1] = "spin"

\* C20: in the program of main.rs no write made under the lock faults, no
\* frame holding the guard is ever interrupted by a panic, the lock is held
\* only by the running _print, and so the panic handler never waits for a
\* lock held by its own execution path.
C20_NoFaultUnderLock ==
    /\ ~writer.fault
    /\ ~abandoned
    /\ locked <=> pc[1] = "held"
    /\ ~ReentrantWait
    /\ pc[1] = "spin" => ENABLED Lock(1)

\* The panic handler has printed a message longer than a row, after
\* _start's greeting, and is in its loop
C20_Witness ==
    /\ ctx.fn = "panic"
    /\ PrintlnDone
    /\ Len(hist[1]) = 2
    /\ writer.n_scroll = 3
    /\ ~locked

---------------------------------------------------------------------------
(* SpecP: the program of main.rs with a panic raised inside write_fmt, under
   the guard (a Display implementation that panics, say): the case the
   driver's code does not produce by itself *)

\* A panic while _print holds the guard: the handler starts on top of the
\* interrupted frame
Fault(msg) ==
    /\ pc[1] = "held"
    /\ PanicEntry(msg)

NextP ==
    \/ NextM
    \/ \E msg \in PanicMessages : Fault(msg)

SpecP == InitM /\ [][NextP]_vars

---------------------------------------------------------------------------
(* C12 *)

\* C12: when the panic handler's println asks for the lock that an
\* interrupted _print of the same path still holds, lock() cannot succeed;
\* from then on the path stays in lock(), the Writer and the record of
\* completed calls do not change, and the lock stays held.
C12_ReentrantLockSpinsForever ==
    /\ [](ReentrantWait => ~ENABLED Lock(1))
    /\ [](abandoned => locked)
    /\ [][(abandoned /\ pc[1] = "spin") =>
             /\ ReentrantWait'
             /\ writer' = writer
             /\ hist' = hist
             /\ ctx' = ctx]_vars

\* The handler has tried the lock held below it and goes round again
C12_Witness ==
    /\ ReentrantWait
    /\ ctx.fn = "panic"
    /\ contended

====
